---- MODULE Spec2Model ----
(***************************************************************************)
(* State-machine model of the OTPTextInput component                       *)
(* (src/src/OTPTextInput.tsx).                                             *)
(*                                                                         *)
(* A JavaScript string is a sequence of UTF-16 code units, each code unit  *)
(* a one-character TLA+ string; the empty string is << >>.  A JavaScript   *)
(* array is a sequence whose entries are strings or Undefined (a hole or   *)
(* an index past the end reads as undefined).  Cell indices are 0-based as *)
(* in the source; entry i of an array is arr[i + 1].                       *)
(***************************************************************************)
EXTENDS Integers, Sequences, FiniteSets, TLC

\* ------------------------------------------------------------------ bounds

MaxInputCount == 2      \* inputCount ranges over 2..MaxInputCount
MaxCellLength == 1      \* inputMaxLength ranges over 1..MaxCellLength (two cells)
MaxValueLen == 3        \* longest string passed to setValue / defaultValue
MaxStale == 1           \* debounced functions of earlier renders still pending
MaxFired == 2           \* saturation of the per-burst invocation counter
MaxDigitLen == 3        \* longest digit string passed to setValue in Spec
TickMs == 75            \* granularity of the clock, in milliseconds
MaxBatch == 2           \* events handled between two renders in SpecBatch

\* ------------------------------------------------------------- JS strings

Digits == {"1"}
Letters == {"a"}
HighSurrogate == "H"    \* first code unit of a character outside the BMP
LowSurrogate == "L"     \* second code unit of a character outside the BMP
TypedUnits == Digits \cup Letters
Units == Digits \cup {HighSurrogate, LowSurrogate}

Undefined == <<"undefined">>

Min(a, b) == IF a < b THEN a ELSE b
Max(a, b) == IF a > b THEN a ELSE b

SeqsUpTo(S, n) == UNION {[1..k -> S] : k \in 0..n}

\* Strings in which every surrogate is half of a pair.
WellFormed(s) ==
    \A k \in 1..Len(s) :
        /\ s[k] = HighSurrogate => (k < Len(s) /\ s[k + 1] = LowSurrogate)
        /\ s[k] = LowSurrogate => (k > 1 /\ s[k - 1] = HighSurrogate)

Values == {s \in SeqsUpTo(Units, MaxValueLen) : WellFormed(s)}

\* value.slice(0, n): the first n code units.
Slice(value, n) == SubSeq(value, 1, Min(n, Len(value)))

\* [...str]: the string iterator yields code points, so a surrogate pair is
\* one element of two code units.
RECURSIVE Spread(_)
Spread(str) ==
    IF Len(str) = 0 THEN << >>
    ELSE IF Len(str) >= 2 /\ str[1] = HighSurrogate /\ str[2] = LowSurrogate
         THEN <<SubSeq(str, 1, 2)>> \o Spread(SubSeq(str, 3, Len(str)))
         ELSE <<SubSeq(str, 1, 1)>> \o Spread(SubSeq(str, 2, Len(str)))

\* arr[i] read: undefined past the end.
At(arr, i) == IF i >= 0 /\ i < Len(arr) THEN arr[i + 1] ELSE Undefined

\* arr[i] = v: assignment past the end grows the array and leaves holes.
SetAt(arr, i, v) ==
    [k \in 1..Max(Len(arr), i + 1) |->
        IF k = i + 1 THEN v ELSE IF k <= Len(arr) THEN arr[k] ELSE Undefined]

\* value={otpText[i] || ''}: what cell i of an array displays.
Shown(arr, i) == IF At(arr, i) = Undefined THEN << >> ELSE At(arr, i)

\* arr.join(''): undefined entries and holes contribute the empty string.
RECURSIVE Join(_)
Join(arr) ==
    IF Len(arr) = 0 THEN << >>
    ELSE (IF arr[1] = Undefined THEN << >> ELSE arr[1]) \o Join(Tail(arr))

\* new Array(n).fill('')
EmptyCells(n) == [k \in 1..n |-> << >>]

\* --------------------------------------------------------------- regex

IsDigit(u) == u \in Digits
IsLetter(u) == u \in Letters

\* RegExp.prototype.test without anchors: some substring (possibly empty)
\* starting anywhere matches the pattern.
\* new RegExp('\\d*')
NumbersRegexTest(text) ==
    \E s \in 0..Len(text) : \E e \in s..Len(text) :
        \A k \in (s + 1)..e : IsDigit(text[k])

\* new RegExp('.*')
DefaultRegexTest(text) ==
    \E s \in 0..Len(text) : \E e \in s..Len(text) : TRUE

\* Caller-supplied patterns the host may pass as customRegex.
CustomRegexes == {"undefined", "^\\d+$"}

CustomRegexTest(re, text) ==
    CASE re = "^\\d+$" -> Len(text) >= 1 /\ \A k \in 1..Len(text) : IsDigit(text[k])
      [] OTHER -> FALSE

\* ------------------------------------------------------------------ state

VARIABLES
    inputCount,         \* prop: number of cells
    inputMaxLength,     \* prop: maxLength of each cell
    useNumbersRegex,    \* prop
    useCustomRegex,     \* prop
    customRegex,        \* prop: a member of CustomRegexes
    handlerStable,      \* TRUE: the host passes the same onTextChangeHandler
                        \* function on every render; FALSE: a new one each time
    phase,              \* "new", "error" (the constructor threw), "mounted"
                        \* or "unmounted"
    otpText,            \* useState: the cell value array
    focusedInput,       \* useState: the focused index
    rendered,           \* otpText as captured by the closures of the last render
    debounced,          \* the debounced function of the last render
    stale,              \* pending debounced functions of earlier renders
    lastCall,           \* argument of a host handler invocation that just happened
    burstFired,         \* host handler invocations in the current burst
    last                \* the operation that ran last, with what it saw

props == <<inputCount, inputMaxLength, useNumbersRegex, useCustomRegex,
           customRegex, handlerStable>>
timers == <<debounced, stale, lastCall, burstFired>>
vars == <<props, phase, otpText, focusedInput, rendered, timers, last>>

None == <<"none">>
Wait == 125             \* lodash.debounce(onTextChangeHandler, 125)
Idle == [pending |-> FALSE, rem |-> 0, args |-> None]
NoCall == [value |-> None, latest |-> None]

Positions == 0..(inputCount - 1)
Texts == SeqsUpTo(TypedUnits, inputMaxLength)
Keys == {"Backspace", "Enter"}

NoCell == 0 - 1         \* no cell: inputsRef.current[i] is undefined

\* The focus effect calling focus() whether or not the cell exists.
FocusEffectUnchecked(newFocus) ==
    IF newFocus # focusedInput THEN newFocus ELSE NoCell

\* useEffect(() => inputsRef?.current[focusedInput]?.current?.focus(),
\*           [focusedInput]): the cell focus() is called on after a render in
\* which focusedInput became newFocus, if any.
FocusEffect(newFocus) ==
    IF newFocus # focusedInput /\ newFocus \in Positions THEN newFocus ELSE NoCell

\* What the operation running now saw before it ran (the focused index, the
\* cell it read) and what it did besides writing state: the cell it called
\* focus() on and the host callbacks it invoked.
Seen(op, pos, arg, cell, newFocus) ==
    [op |-> op, pos |-> pos, arg |-> arg, focus0 |-> focusedInput, cell0 |-> cell,
     otp0 |-> << >>, cb |-> << >>, focusCall |-> FocusEffect(newFocus),
     autoFocus |-> FALSE, batch |-> << >>]

\* The validation pattern resolved by useMemo, applied with regex.test(text).
regex(text) ==
    IF useNumbersRegex THEN NumbersRegexTest(text)
    ELSE IF useCustomRegex /\ customRegex # "undefined"
         THEN CustomRegexTest(customRegex, text)
         ELSE DefaultRegexTest(text)

\* The component function without its configuration check.
ThrowsNever == FALSE

\* The configuration check at the top of the component function.
ThrowsConfigError == useNumbersRegex /\ useCustomRegex

\* The initial cells without the padding to inputCount entries.
InitialOtpTextUnpadded(defaultValue) ==
    [k \in 1..Min(inputCount, Len(defaultValue)) |-> <<defaultValue[k]>>]

\* Array.from({ length: inputCount }, (_, i) => defaultValue[i] || '')
InitialOtpText(defaultValue) ==
    [k \in 1..inputCount |->
        IF k <= Len(defaultValue) THEN <<defaultValue[k]>> ELSE << >>]

\* Before the first render: the props are chosen, nothing else exists yet.
Unmounted ==
    /\ phase = "new"
    /\ otpText = << >>
    /\ focusedInput = 0
    /\ rendered = << >>
    /\ debounced = Idle
    /\ stale = << >>
    /\ lastCall = NoCall
    /\ burstFired = 0
    /\ last = [op |-> "new", pos |-> 0, arg |-> << >>, focus0 |-> 0, cell0 |-> Undefined,
               otp0 |-> << >>, cb |-> << >>, focusCall |-> NoCell, autoFocus |-> FALSE,
               batch |-> << >>]

\* Any configuration, any text: the cells and the focus.
InitCells ==
    /\ inputCount \in 2..MaxInputCount
    /\ inputMaxLength \in 1..(IF inputCount = 2 THEN MaxCellLength ELSE 1)
    /\ useNumbersRegex \in BOOLEAN
    /\ useCustomRegex \in BOOLEAN
    /\ customRegex \in (IF useCustomRegex THEN CustomRegexes ELSE {"undefined"})
    /\ handlerStable = TRUE
    /\ Unmounted

\* The default configuration with two cells, digits only: the timers.
Init ==
    /\ inputCount = 2
    /\ inputMaxLength = 1
    /\ useNumbersRegex = TRUE
    /\ useCustomRegex = FALSE
    /\ customRegex = "undefined"
    /\ handlerStable \in BOOLEAN
    /\ Unmounted

\* First render of the component function: the configuration check, then the
\* useState initialisers.  The first TextInput is rendered with
\* autoFocus={autoFocus && i === 0}, and after the commit the focus effect
\* runs for the initial focusedInput.
Mount(defaultValue, autoFocus) ==
    /\ phase = "new"
    /\ IF ThrowsConfigError
       THEN /\ phase' = "error"
            /\ UNCHANGED <<otpText, rendered, last>>
       ELSE /\ phase' = "mounted"
            /\ otpText' = InitialOtpText(defaultValue)
            /\ rendered' = InitialOtpText(defaultValue)
            /\ last' = [Seen("mount", 0, defaultValue, Undefined, focusedInput)
                            EXCEPT !.focusCall = focusedInput, !.autoFocus = autoFocus]
    /\ UNCHANGED <<props, focusedInput, timers>>

\* setOtpText(newOtp) / setFocusedInput(newFocus), and the re-render React
\* runs when the handler returns: the next handlers close over the new array.
SetState(newOtp, newFocus) ==
    /\ otpText' = newOtp
    /\ focusedInput' = newFocus
    /\ rendered' = newOtp

\* The host re-renders and so renders the component again with fresh props:
\* useMemo makes a new debounced function when onTextChangeHandler is a new
\* function, and the old one keeps its timer.
HostRender ==
    /\ phase = "mounted"
    /\ ~handlerStable
    /\ debounced.pending => Len(stale) < MaxStale
    /\ debounced' = Idle
    /\ stale' = IF debounced.pending
                THEN Append(stale, [rem |-> debounced.rem, args |-> debounced.args])
                ELSE stale
    /\ UNCHANGED <<props, phase, otpText, focusedInput, rendered, lastCall,
                   burstFired, last>>

\* clear() without its setFocusedInput(0).
clearKeepsFocus ==
    /\ phase = "mounted"
    /\ SetState(EmptyCells(inputCount), focusedInput)
    /\ lastCall' = NoCall
    /\ last' = Seen("clear", 0, << >>, At(rendered, 0), focusedInput)
    /\ UNCHANGED <<props, phase, debounced, stale, burstFired>>

clear ==
    /\ phase = "mounted"
    /\ SetState(EmptyCells(inputCount), 0)
    /\ lastCall' = NoCall
    /\ last' = Seen("clear", 0, << >>, At(rendered, 0), 0)
    /\ UNCHANGED <<props, phase, debounced, stale, burstFired>>

setValue(value) ==
    /\ phase = "mounted"
    /\ SetState(Spread(Slice(value, inputCount)), inputCount)
    /\ lastCall' = NoCall
    /\ last' = Seen("setValue", 0, value, Undefined, inputCount)
    /\ UNCHANGED <<props, phase, debounced, stale, burstFired>>

\* The timer started by the latest accepted text change: the current debounced
\* function's, or else that of the debounced function replaced last.
LatestTimer ==
    IF debounced.pending THEN [rem |-> debounced.rem, args |-> debounced.args]
    ELSE IF Len(stale) > 0 THEN stale[Len(stale)]
    ELSE [rem |-> 0, args |-> None]

\* The argument of the latest accepted text change still awaiting emission.
LatestArgs == LatestTimer.args

\* Less than Wait ms have passed since the latest accepted text change.
InBurst == LatestTimer.rem > 0

\* debounceOnTextChangeHandler(newOtp.join('')); setOtpText(newOtp)
\* Calling the debounced function records the argument and restarts its timer.
updateOTP(newOtp, newFocus) ==
    /\ debounced' = [pending |-> TRUE, rem |-> Wait, args |-> Join(newOtp)]
    /\ SetState(newOtp, newFocus)
    /\ burstFired' = IF InBurst THEN burstFired ELSE 0

\* The focus advance without its test for the last cell.
FocusAlwaysAdvances(text, position) ==
    IF Len(text) = inputMaxLength THEN position + 1 ELSE focusedInput

\* if (text?.length === inputMaxLength && position !== inputCount - 1)
\*   setFocusedInput(position + 1)
FocusAfterText(text, position) ==
    IF Len(text) = inputMaxLength /\ position # inputCount - 1
    THEN position + 1 ELSE focusedInput

\* onChangeText of cell position: the native text of that TextInput is now
\* text.  The event also follows a key press whose handler has already
\* written the same text to the cell.
onTextChange(text, position) ==
    /\ phase = "mounted"
    /\ lastCall' = NoCall
    /\ last' = [Seen("onTextChange", position, text, At(rendered, position),
                     IF regex(text) THEN FocusAfterText(text, position)
                     ELSE focusedInput) EXCEPT !.otp0 = rendered]
    /\ IF ~regex(text)
       THEN UNCHANGED <<otpText, focusedInput, rendered, debounced, burstFired>>
       ELSE updateOTP(SetAt(rendered, position, text), FocusAfterText(text, position))
    /\ UNCHANGED <<props, phase, stale>>

\* if (otpText[position] !== '') otpCopy[position] = '';
\* else if (position > 0) setFocusedInput(position - 1)
FocusAfterKey(key, position) ==
    IF key = "Backspace" /\ At(rendered, position) = << >> /\ position > 0
    THEN position - 1 ELSE focusedInput

onKeyPress(key, position) ==
    /\ phase = "mounted"
    /\ lastCall' = NoCall
    /\ last' = [Seen(key, position, << >>, At(rendered, position),
                     FocusAfterKey(key, position)) EXCEPT !.otp0 = rendered]
    /\ IF key = "Backspace"
       THEN IF At(rendered, position) # << >>
            THEN SetState(SetAt(rendered, position, << >>), focusedInput)
            ELSE SetState(rendered, FocusAfterKey(key, position))
       ELSE UNCHANGED <<otpText, focusedInput, rendered>>
    /\ UNCHANGED <<props, phase, debounced, stale, burstFired>>

\* The host's onFocus or onBlur prop called with a cell index.
HostCallback(name, i) == [name |-> name, arg |-> i]

\* The onFocus handler of a cell without its setFocusedInput(i).
cellOnFocusKeepsIndex(i) ==
    /\ phase = "mounted"
    /\ lastCall' = NoCall
    /\ last' = [Seen("focus", i, << >>, At(rendered, i), focusedInput)
                    EXCEPT !.otp0 = rendered,
                           !.cb = <<HostCallback("onFocus", i)>>]
    /\ SetState(rendered, focusedInput)
    /\ UNCHANGED <<props, phase, debounced, stale, burstFired>>

\* onFocus={() => { if (onFocus) onFocus(i); setFocusedInput(i) }}
\* The TextInput of cell i received input focus.
cellOnFocus(i) ==
    /\ phase = "mounted"
    /\ lastCall' = NoCall
    /\ last' = [Seen("focus", i, << >>, At(rendered, i), i)
                    EXCEPT !.otp0 = rendered,
                           !.cb = <<HostCallback("onFocus", i)>>]
    /\ SetState(rendered, i)
    /\ UNCHANGED <<props, phase, debounced, stale, burstFired>>

\* onBlur={() => { if (onBlur) onBlur(i) }}
\* The TextInput of cell i lost input focus.
cellOnBlur(i) ==
    /\ phase = "mounted"
    /\ lastCall' = NoCall
    /\ last' = [Seen("blur", i, << >>, At(rendered, i), focusedInput)
                    EXCEPT !.otp0 = rendered,
                           !.cb = <<HostCallback("onBlur", i)>>]
    /\ UNCHANGED <<props, phase, otpText, focusedInput, rendered, debounced,
                   stale, burstFired>>

\* The host removes the component.  No effect of the component returns a
\* cleanup function and nothing calls cancel() on a debounced function: the
\* timers keep running.
Unmount ==
    /\ phase = "mounted"
    /\ phase' = "unmounted"
    /\ lastCall' = NoCall
    /\ last' = [Seen("unmount", 0, << >>, Undefined, focusedInput)
                    EXCEPT !.focusCall = NoCell]
    /\ UNCHANGED <<props, otpText, focusedInput, rendered, debounced, stale,
                   burstFired>>

\* The timers are setTimeout timers: they run whether or not the component
\* that started them is still mounted.
TimersRun == phase \in {"mounted", "unmounted"}

\* Time passes: every running timer gets TickMs closer to its expiry.  A
\* timer at its expiry fires before more time passes.
Elapse(t) == [t EXCEPT !.rem = Max(0, t.rem - TickMs)]

Tick ==
    /\ TimersRun
    /\ debounced.pending \/ Len(stale) > 0
    /\ ~(debounced.pending /\ debounced.rem = 0)
    /\ \A k \in 1..Len(stale) : stale[k].rem > 0
    /\ debounced' = IF debounced.pending THEN Elapse(debounced) ELSE debounced
    /\ stale' = [k \in 1..Len(stale) |-> Elapse(stale[k])]
    /\ UNCHANGED <<props, phase, otpText, focusedInput, rendered, lastCall,
                   burstFired, last>>

\* The host's onTextChangeHandler runs with the debounced function's last
\* argument.
Invoke(args) ==
    /\ lastCall' = [value |-> args, latest |-> LatestArgs]
    /\ burstFired' = Min(MaxFired, burstFired + 1)

\* The timer of the current debounced function expires.
Fire ==
    /\ TimersRun
    /\ debounced.pending /\ debounced.rem = 0
    /\ \A k \in 1..Len(stale) : stale[k].rem > 0
    /\ Invoke(debounced.args)
    /\ debounced' = Idle
    /\ UNCHANGED <<props, phase, otpText, focusedInput, rendered, stale, last>>

\* The timer of a debounced function of an earlier render expires.
FireStale ==
    /\ TimersRun
    /\ Len(stale) > 0 /\ stale[1].rem = 0
    /\ Invoke(stale[1].args)
    /\ stale' = Tail(stale)
    /\ UNCHANGED <<props, phase, otpText, focusedInput, rendered, debounced, last>>

DigitValues == SeqsUpTo(Digits, MaxDigitLen)
DigitTexts == SeqsUpTo(Digits, inputMaxLength)

\* Every operation, on digit input.
Next ==
    \/ \E dv \in DigitValues, af \in BOOLEAN : Mount(dv, af)
    \/ HostRender
    \/ Unmount
    \/ clear
    \/ \E v \in DigitValues : setValue(v)
    \/ \E t \in DigitTexts, i \in Positions : onTextChange(t, i)
    \/ \E k \in Keys, i \in Positions : onKeyPress(k, i)
    \/ \E i \in Positions : cellOnFocus(i)
    \/ \E i \in Positions : cellOnBlur(i)
    \/ Tick
    \/ Fire
    \/ FireStale

Spec == Init /\ [][Next]_vars

\* The operations that write the cells or the focus, on any input.  The
\* others (HostRender, Tick, Fire, FireStale) leave otpText, focusedInput and
\* rendered unchanged and no guard of these operations reads a timer.
NextCells ==
    \/ \E dv \in Values, af \in BOOLEAN : Mount(dv, af)
    \/ clear
    \/ \E v \in Values : setValue(v)
    \/ \E t \in Texts, i \in Positions : onTextChange(t, i)
    \/ \E k \in Keys, i \in Positions : onKeyPress(k, i)
    \/ \E i \in Positions : cellOnFocus(i)
    \/ \E i \in Positions : cellOnBlur(i)

SpecCells == InitCells /\ [][NextCells]_vars

\* ------------------------------------------------- batched state updates
\* React does not promise a render between two events: state updates are
\* queued and the component function runs again later, so a handler can run
\* while the handlers of the last render (and the otpText they closed over,
\* rendered) are still the current ones.

\* An event handled since the last render: the cell it was for, the value
\* it meant to store and whether its handler called setOtpText for it.
Handled(position, value, wrote) == [pos |-> position, value |-> value, wrote |-> wrote]

\* The events handled since the last render.
Batch == IF last.op \in {"new", "mount", "render"} THEN << >> ELSE last.batch

\* focusedInput as of the last render.
RenderedFocus == IF Batch = << >> THEN focusedInput ELSE last.focus0

\* What a handler running before the re-render saw and did.
SeenInBatch(op, pos, arg, value, wrote) ==
    [Seen(op, pos, arg, At(rendered, pos), focusedInput)
        EXCEPT !.focus0 = RenderedFocus,
               !.otp0 = rendered,
               !.batch = Append(Batch, Handled(pos, value, wrote))]

\* onTextChange run by an event that arrives before the re-render: it
\* copies the otpText of the last render.
onTextChangeBatched(text, position) ==
    /\ phase = "mounted"
    /\ Len(Batch) < MaxBatch
    /\ lastCall' = NoCall
    /\ last' = SeenInBatch("onTextChange", position, text, text, regex(text))
    /\ IF ~regex(text)
       THEN UNCHANGED <<otpText, focusedInput, debounced, burstFired>>
       ELSE /\ debounced' = [pending |-> TRUE, rem |-> Wait,
                             args |-> Join(SetAt(rendered, position, text))]
            /\ otpText' = SetAt(rendered, position, text)
            /\ focusedInput' = FocusAfterText(text, position)
            /\ burstFired' = IF InBurst THEN burstFired ELSE 0
    /\ UNCHANGED <<props, phase, rendered, stale>>

\* onKeyPress run by an event that arrives before the re-render.
onKeyPressBatched(key, position) ==
    /\ phase = "mounted"
    /\ Len(Batch) < MaxBatch
    /\ lastCall' = NoCall
    /\ last' = SeenInBatch(key, position, << >>, << >>,
                           key = "Backspace" /\ Shown(rendered, position) # << >>)
    /\ IF key = "Backspace"
       THEN /\ otpText' = IF At(rendered, position) # << >>
                          THEN SetAt(rendered, position, << >>)
                          ELSE rendered
            /\ focusedInput' = FocusAfterKey(key, position)
       ELSE UNCHANGED <<otpText, focusedInput>>
    /\ UNCHANGED <<props, phase, rendered, debounced, stale, burstFired>>

\* The component function runs again with the queued state: the handlers
\* of the new render close over the new otpText, and the focus effect runs
\* if focusedInput is not what it was at the last render.
Render ==
    /\ phase = "mounted"
    /\ Batch # << >>
    /\ rendered' = otpText
    /\ last' = [last EXCEPT !.op = "render",
                            !.focusCall = IF focusedInput # last.focus0
                                             /\ focusedInput \in Positions
                                          THEN focusedInput ELSE NoCell]
    /\ UNCHANGED <<props, phase, otpText, focusedInput, timers>>

\* The default configuration, any typed text.
InitBatch ==
    /\ inputCount \in 2..MaxInputCount
    /\ inputMaxLength = 1
    /\ useNumbersRegex = TRUE
    /\ useCustomRegex = FALSE
    /\ customRegex = "undefined"
    /\ handlerStable = TRUE
    /\ Unmounted

\* Key events, each handled before or after the re-render of the one before.
NextBatch ==
    \/ \E dv \in DigitValues, af \in BOOLEAN : Mount(dv, af)
    \/ \E t \in Texts, i \in Positions : onTextChangeBatched(t, i)
    \/ \E k \in Keys, i \in Positions : onKeyPressBatched(k, i)
    \/ Render

SpecBatch == InitBatch /\ [][NextBatch]_vars

\* ----------------------------------------------------------------- claims

\* C1: while the component is mounted the cell value array has exactly
\* inputCount entries.
C1_CellArrayLength == phase = "mounted" => Len(otpText) = inputCount

\* C2: right after clear() the cells are inputCount empty strings and the
\* focused index is 0, whatever the state before.
C2_ClearResets ==
    last.op = "clear" => otpText = EmptyCells(inputCount) /\ focusedInput = 0

\* clear() has run from a state whose focus was the past-end sentinel and
\* whose first cell was filled.
C2_Witness ==
    /\ last.op = "clear"
    /\ last.focus0 = inputCount
    /\ last.cell0 \notin {<< >>, Undefined}
    /\ otpText = EmptyCells(inputCount)

\* C3: right after setValue(v) with v shorter than inputCount, cell k holds
\* the k-th character of v for k < length(v) and the empty string for every
\* other index below inputCount, and the focused index is inputCount.
C3_SetValueShort ==
    (last.op = "setValue" /\ Len(last.arg) < inputCount) =>
        /\ otpText = [k \in 1..inputCount |->
                        IF k <= Len(last.arg) THEN <<last.arg[k]>> ELSE << >>]
        /\ focusedInput = inputCount

\* C4: right after setValue(v) with v at least inputCount long, the cells are
\* the first inputCount characters of v, one per cell, and the focused index
\* is inputCount.
C4_SetValueLong ==
    (last.op = "setValue" /\ Len(last.arg) >= inputCount) =>
        /\ otpText = [k \in 1..inputCount |-> <<last.arg[k]>>]
        /\ focusedInput = inputCount

HasNonDigit(text) == \E k \in 1..Len(text) : ~IsDigit(text[k])

\* C5: in numeric mode a text change whose text contains a non-digit leaves
\* the value of its cell as it was.
C5_NonDigitRejected ==
    (last.op = "onTextChange" /\ useNumbersRegex /\ HasNonDigit(last.arg)) =>
        Shown(otpText, last.pos) = Shown(<<last.cell0>>, 0)

\* C6: after an accepted text change on cell i, the focused index is i + 1
\* when the text is inputMaxLength long and i is not the last cell, and is
\* what it was before in every other case.
C6_FocusAdvance ==
    (last.op = "onTextChange" /\ regex(last.arg)) =>
        focusedInput =
            IF Len(last.arg) = inputMaxLength /\ last.pos < inputCount - 1
            THEN last.pos + 1
            ELSE last.focus0

\* An accepted full-length text change has run on the last cell while the
\* focus was on that cell, and the focus has stayed there.
C6_Witness ==
    /\ last.op = "onTextChange"
    /\ regex(last.arg)
    /\ Len(last.arg) = inputMaxLength
    /\ last.pos = inputCount - 1
    /\ last.focus0 = inputCount - 1
    /\ focusedInput = inputCount - 1
    /\ At(otpText, last.pos) = last.arg

\* C7: after Backspace on cell i: a cell that displayed text is empty and the
\* focus has not moved; a cell that displayed nothing, with i > 0, has sent
\* the focus to i - 1.  Any other key leaves the focus alone.
C7_Backspace ==
    /\ last.op = "Backspace" =>
        IF Shown(<<last.cell0>>, 0) # << >>
        THEN Shown(otpText, last.pos) = << >> /\ focusedInput = last.focus0
        ELSE last.pos > 0 => focusedInput = last.pos - 1
    /\ last.op = "Enter" => focusedInput = last.focus0

\* C8: a burst of accepted text changes, each less than Wait ms after the one
\* before, leads to one invocation of the host handler, and that invocation
\* carries the cells joined after the last of them.
C8_OneEmissionPerBurst ==
    /\ burstFired <= 1
    /\ lastCall.value # None => lastCall.value = lastCall.latest

\* C9: the component function throws exactly when useNumbersRegex and
\* useCustomRegex are both true, and then no state has been created.
C9_ConfigError ==
    /\ phase = "error" =>
        useNumbersRegex /\ useCustomRegex /\ otpText = << >> /\ rendered = << >>
    /\ phase = "mounted" => ~(useNumbersRegex /\ useCustomRegex)

\* The component function has thrown on a configuration with both flags.
C9_Witness == phase = "error" /\ useNumbersRegex /\ useCustomRegex

\* C10: after clear() or setValue(v) the new joined cells are awaiting
\* emission by a debounced function, or have just been handed to the host
\* handler.
C10_ImperativeEmits ==
    last.op \in {"clear", "setValue"} =>
        \/ LatestArgs = Join(otpText)
        \/ lastCall.value = Join(otpText)


\* C11: after an accepted text change, and after a Backspace key event that
\* cleared a non-empty cell, the assembled code of the resulting cells is the
\* argument of a pending emission or has been handed to the host.
C11_KeyMutationEmits ==
    (\/ last.op = "onTextChange" /\ regex(last.arg)
     \/ last.op = "Backspace" /\ last.cell0 \notin {<< >>, Undefined})
    => (LatestArgs = Join(otpText) \/ lastCall.value = Join(otpText))

\* C12: once the component is unmounted the host's change handler is not
\* invoked any more.
C12_NoEmissionAfterUnmount == phase = "unmounted" => lastCall = NoCall

\* C13: a focus event on cell i makes i the focused index, whatever it was,
\* and calls the host's onFocus once, with i; a blur event on cell i calls
\* the host's onBlur once, with i, and leaves the focused index and the cells
\* as they were.
C13_FocusBlurEvents ==
    /\ last.op = "focus" =>
          /\ focusedInput = last.pos
          /\ otpText = last.otp0
          /\ last.cb = <<HostCallback("onFocus", last.pos)>>
    /\ last.op = "blur" =>
          /\ focusedInput = last.focus0
          /\ otpText = last.otp0
          /\ last.cb = <<HostCallback("onBlur", last.pos)>>

\* A focus event on the last cell arrived while the focused index was the
\* past-end sentinel.
C13_Witness ==
    /\ last.op = "focus"
    /\ last.focus0 = inputCount
    /\ last.pos = inputCount - 1
    /\ focusedInput = inputCount - 1

\* The cell holding input focus once the mount has finished: the one the
\* focus effect called focus() on, or else the one rendered with autoFocus.
InputFocusAfterMount ==
    IF last.focusCall # NoCell THEN last.focusCall
    ELSE IF last.autoFocus THEN 0 ELSE NoCell

\* C14: after the mount cell 0 has input focus when autoFocus is enabled, and
\* no cell has been given input focus when it is disabled.
C14_AutoFocus ==
    last.op = "mount" =>
        InputFocusAfterMount = (IF last.autoFocus THEN 0 ELSE NoCell)

\* The acceptance the configuration calls for: digits only in numeric mode,
\* the caller's pattern in custom mode, anything otherwise.
ResolvedAccepts(text) ==
    IF useNumbersRegex THEN ~HasNonDigit(text)
    ELSE IF useCustomRegex /\ customRegex # "undefined"
         THEN CustomRegexTest(customRegex, text)
         ELSE TRUE

\* C15: a text change is accepted (the cell takes the text) when the pattern
\* the configuration resolves to accepts the text, and rejected (the cells
\* stay as they were) when it does not; a custom mode without a customRegex
\* accepts everything and raises nothing.
C15_PatternResolution ==
    /\ phase # "error" \/ (useNumbersRegex /\ useCustomRegex)
    /\ last.op = "onTextChange" =>
          IF ResolvedAccepts(last.arg)
          THEN At(otpText, last.pos) = last.arg
          ELSE otpText = last.otp0

\* C16: a text change whose text does not match the active pattern in full
\* is rejected and changes nothing: the cells and the focused index are as
\* they were before it.
C16_RejectedNoChange ==
    (last.op = "onTextChange" /\ ~ResolvedAccepts(last.arg)) =>
        /\ otpText = last.otp0
        /\ focusedInput = last.focus0

\* C17: the focused index is never negative and never above inputCount, and
\* it becomes inputCount only by setValue.
C17_FocusRange ==
    phase = "mounted" =>
        /\ focusedInput \in 0..inputCount
        /\ (focusedInput = inputCount /\ last.focus0 # inputCount)
              => last.op = "setValue"

\* Backspace was pressed on the empty first cell while the last cell was
\* filled: the focused index stays 0.
C17_Witness ==
    /\ phase = "mounted"
    /\ focusedInput = 0
    /\ last.op = "Backspace"
    /\ last.pos = 0
    /\ last.cell0 = << >>
    /\ At(otpText, inputCount - 1) # << >>
    /\ At(otpText, inputCount - 1) # Undefined

\* C18: right after the mount cell i holds the i-th character of
\* defaultValue when there is one and the empty string otherwise; characters
\* of defaultValue past inputCount are dropped.
C18_DefaultValueSeeds ==
    last.op = "mount" =>
        /\ Len(otpText) = inputCount
        /\ \A i \in Positions :
              At(otpText, i) = (IF i < Len(last.arg) THEN <<last.arg[i + 1]>>
                                ELSE << >>)

\* The mount ran with a defaultValue shorter than inputCount.
C18_Witness ==
    /\ last.op = "mount"
    /\ Len(last.arg) = 1
    /\ inputCount = 2
    /\ otpText = <<last.arg, << >>>>

\* C19: Backspace on a cell that shows nothing leaves every entry of the cell
\* value array as it was, and on cell 0 leaves the focused index as it was.
C19_BackspaceOnEmptyFrame ==
    (last.op = "Backspace" /\ Shown(last.otp0, last.pos) = << >>) =>
        /\ otpText = last.otp0
        /\ last.pos = 0 => focusedInput = last.focus0

\* C20: when an operation changes the focused index to a cell, focus() is
\* called on that cell; when it changes it to inputCount, focus() is called
\* on no cell.
C20_FocusFollowsIndex ==
    (last.op \notin {"new", "mount", "unmount"} /\ focusedInput # last.focus0) =>
        last.focusCall = (IF focusedInput < inputCount THEN focusedInput ELSE NoCell)

\* setValue moved the focused index from a cell to the past-end sentinel.
C20_Witness ==
    /\ last.op = "setValue"
    /\ last.focus0 = 1
    /\ focusedInput = inputCount
    /\ last.focusCall = NoCell

\* C21: whenever the host's change handler has been invoked, the value it
\* received is the join of the cells at that moment (the cells have not
\* changed since: every operation that writes them resets lastCall).
C21_NoStaleEmission ==
    (phase = "mounted" /\ lastCall # NoCall) => lastCall.value = Join(otpText)

\* C22: when two events that write different cells have been handled against
\* the same rendered array, then after the re-render each of the two cells
\* holds the value its own event wrote and every other cell is as it was.
C22_NoLostUpdate ==
    (/\ last.op = "render"
     /\ Len(last.batch) = 2
     /\ last.batch[1].wrote /\ last.batch[2].wrote
     /\ last.batch[1].pos # last.batch[2].pos) =>
        \A i \in Positions :
            Shown(otpText, i) =
                (IF i = last.batch[1].pos THEN last.batch[1].value
                 ELSE IF i = last.batch[2].pos THEN last.batch[2].value
                 ELSE Shown(last.otp0, i))

\* C23: in numeric mode every cell of a mounted component holds digits only,
\* or nothing.
C23_NumericCellsDigitsOnly ==
    (phase = "mounted" /\ useNumbersRegex) =>
        \A i \in Positions : ~HasNonDigit(Shown(otpText, i))

====
